---- MODULE Spec2Model ----
(***************************************************************************)
(* Model of the slot-based appointment scheduling engine of Health-Ease:   *)
(* host_agent_adk/host/medical_scheduling_tools.py (the bookable calendar) *)
(* and the read-only calendars of neurologist_agent_adk/agent.py and       *)
(* pulmonologist_agent_crewai/agent.py with their date-range queries, and  *)
(* the task lifecycle of neurologist_agent_adk/agent_executor.py.          *)
(* Strings are sequences of one-character strings, so that strptime,       *)
(* strftime, str.strip and the f-string that builds the occupant label are *)
(* computed, not assumed.                                                  *)
(***************************************************************************)
EXTENDS Integers, Sequences, FiniteSets, TLC

VARIABLES schedule, today, last, committed, threads, office, roster, executor

vars == <<schedule, today, last, committed, threads, office, roster, executor>>

(***************************************************************************)
(* Characters and small string helpers                                     *)
(***************************************************************************)
\* A character is a one-character string when it is printable ASCII, the
\* escapes "\t" "\n" "\r" "\f" for those four, and the token "U+" followed by
\* its code point in at least four upper-case hexadecimal digits otherwise
\* ("U+0663", "U+000B", "U+1D7CE").
Digits == <<"0", "1", "2", "3", "4", "5", "6", "7", "8", "9">>

HexDigits == Digits \o <<"A", "B", "C", "D", "E", "F">>

RECURSIVE HexOf(_)
HexOf(n) == IF n < 16 THEN HexDigits[n + 1]
            ELSE HexOf(n \div 16) \o HexDigits[(n % 16) + 1]

\* the token of the character with code point cp
Chr(cp) == "U+" \o (IF cp < 16 THEN "000" ELSE IF cp < 256 THEN "00"
                    ELSE IF cp < 4096 THEN "0" ELSE "") \o HexOf(cp)

IsAsciiDigit(c) == \E i \in 1..10 : Digits[i] = c

AsciiDigitVal(c) == (CHOOSE i \in 1..10 : Digits[i] = c) - 1

\* the code points of the digit zero of every block of decimal digits
\* (general category Nd) beyond ASCII; the digits 1..9 follow each zero
NdZeros ==
    {
     1632, 1776, 1984, 2406, 2534, 2662, 2790, 2918, 3046, 3174, 3302,
     3430, 3558, 3664, 3792, 3872, 4160, 4240, 6112, 6160, 6470, 6608,
     6784, 6800, 6992, 7088, 7232, 7248, 42528, 43216, 43264, 43472, 43504,
     43600, 44016, 65296, 66720, 68912, 69734, 69872, 69942, 70096, 70384,
     70736, 70864, 71248, 71360, 71472, 71904, 72016, 72784, 73040, 73120,
     92768, 92864, 93008, 120782, 120792, 120802, 120812, 120822, 123200,
     123632, 125264, 130032}

UnicodeDigits == {Chr(z + k) : z \in NdZeros, k \in 0..9}

\* \d of a str pattern of re, str.isdecimal()
IsDigit(c) == IsAsciiDigit(c) \/ c \in UnicodeDigits

\* int(c) for a decimal digit c
DigitVal(c) ==
    IF IsAsciiDigit(c) THEN AsciiDigitVal(c)
    ELSE CHOOSE k \in 0..9 : \E z \in NdZeros : c = Chr(z + k)

\* int(s) for a non-empty string of decimal digits
RECURSIVE NumVal(_)
NumVal(s) == IF Len(s) = 0 THEN 0
             ELSE 10 * NumVal(SubSeq(s, 1, Len(s) - 1)) + DigitVal(s[Len(s)])

\* str(n) for n >= 0
RECURSIVE DecimalOf(_)
DecimalOf(n) == IF n < 10 THEN <<Digits[n + 1]>>
                ELSE DecimalOf(n \div 10) \o <<Digits[(n % 10) + 1]>>

\* f"{n:02d}" for 0 <= n <= 99
Pad2(n) == <<Digits[(n \div 10) + 1], Digits[(n % 10) + 1]>>

\* the characters str.isspace() holds for, which are those \s matches
Whitespace ==
    {" ", "\t", "\n", "\r", "\f"}
    \cup {Chr(cp) : cp \in {11, 28, 29, 30, 31, 133, 160, 5760, 8232, 8233,
                            8239, 8287, 12288} \cup (8192..8202)}

IsSpace(c) == c \in Whitespace

\* str.strip()
RECURSIVE LStrip(_)
LStrip(s) == IF Len(s) > 0 /\ IsSpace(s[1]) THEN LStrip(Tail(s)) ELSE s

RECURSIVE RStrip(_)
RStrip(s) == IF Len(s) > 0 /\ IsSpace(s[Len(s)])
             THEN RStrip(SubSeq(s, 1, Len(s) - 1)) ELSE s

Strip(s) == RStrip(LStrip(s))

(***************************************************************************)
(* Calendar dates: datetime.date as a proleptic Gregorian day number       *)
(***************************************************************************)
IsLeap(y) == (y % 4 = 0) /\ ((y % 100 # 0) \/ (y % 400 = 0))

DaysInMonth(y, m) ==
    IF m = 2 THEN (IF IsLeap(y) THEN 29 ELSE 28)
    ELSE IF m \in {4, 6, 9, 11} THEN 30 ELSE 31

DaysBeforeYear(y) ==
    LET p == y - 1 IN 365 * p + (p \div 4) - (p \div 100) + (p \div 400)

RECURSIVE DaysBeforeMonth(_, _)
DaysBeforeMonth(y, m) ==
    IF m = 1 THEN 0 ELSE DaysBeforeMonth(y, m - 1) + DaysInMonth(y, m - 1)

\* date(y, m, d).toordinal()
ToOrdinal(y, m, d) == DaysBeforeYear(y) + DaysBeforeMonth(y, m) + d

\* date.fromordinal(n), as a record [y, m, d]
YearOf(n) == CHOOSE y \in ((n \div 366) + 1)..((n \div 365) + 1) :
                 DaysBeforeYear(y) < n /\ n <= DaysBeforeYear(y + 1)

MonthOf(n) == LET y == YearOf(n)
                  r == n - DaysBeforeYear(y)
              IN CHOOSE m \in 1..12 :
                     DaysBeforeMonth(y, m) < r
                     /\ r <= DaysBeforeMonth(y, m) + DaysInMonth(y, m)

DayOf(n) == LET y == YearOf(n)
            IN n - DaysBeforeYear(y) - DaysBeforeMonth(y, MonthOf(n))

\* date.strftime("%Y-%m-%d"); the C library's %Y does not pad the year
FormatDate(n) == DecimalOf(YearOf(n)) \o <<"-">> \o Pad2(MonthOf(n))
                 \o <<"-">> \o Pad2(DayOf(n))

Invalid == -1

(***************************************************************************)
(* datetime.strptime: the format becomes a regular expression, one group   *)
(* per directive and \s+ for the blank, that is matched at the start of    *)
(* the string with the alternatives of a group tried in order; the match   *)
(* has to end at the end of the string.                                    *)
(***************************************************************************)
CharAt(s, p) == IF p <= Len(s) THEN s[p] ELSE ""

\* [lo-hi] of the pattern: an ASCII digit between lo and hi
InRange(c, lo, hi) ==
    \E i \in (lo + 1)..(hi + 1) : Digits[i] = c

\* number of whitespace characters of s from position p on
RECURSIVE SpaceRun(_, _)
SpaceRun(s, p) == IF p <= Len(s) /\ IsSpace(s[p]) THEN 1 + SpaceRun(s, p + 1) ELSE 0

\* an alternative of n characters, when it matches
Alternative(n, matches) == IF matches THEN <<n>> ELSE <<>>

\* the lengths that item can take in front of the characters c1 c2 c3 c4 and
\* a run of run whitespace characters, in the order in which its
\* alternatives are tried:
\*   %Y  \d\d\d\d
\*   %m  1[0-2]|0[1-9]|[1-9]
\*   %d  3[0-1]|[1-2]\d|0[1-9]|[1-9]| [1-9]
\*   %H  2[0-3]|[0-1]\d|\d
\*   %M  [0-5]\d|\d
\*   " " \s+          every other item is the character itself
CandidatesAt(item, c1, c2, c3, c4, d1, d2, run) ==
    CASE item = "%Y" ->
           Alternative(4, d1 /\ d2 /\ IsDigit(c3) /\ IsDigit(c4))
      [] item = "%m" ->
           Alternative(2, (c1 = "1" /\ InRange(c2, 0, 2)) \/ (c1 = "0" /\ InRange(c2, 1, 9)))
           \o Alternative(1, InRange(c1, 1, 9))
      [] item = "%d" ->
           Alternative(2, \/ c1 = "3" /\ InRange(c2, 0, 1)
                          \/ InRange(c1, 1, 2) /\ d2
                          \/ c1 = "0" /\ InRange(c2, 1, 9))
           \o Alternative(1, InRange(c1, 1, 9))
           \o Alternative(2, c1 = " " /\ InRange(c2, 1, 9))
      [] item = "%H" ->
           Alternative(2, (c1 = "2" /\ InRange(c2, 0, 3)) \/ (InRange(c1, 0, 1) /\ d2))
           \o Alternative(1, d1)
      [] item = "%M" ->
           Alternative(2, InRange(c1, 0, 5) /\ d2) \o Alternative(1, d1)
      [] item = " " ->
           Alternative(run, run > 0)
      [] OTHER -> Alternative(1, c1 = item)

Candidates(item, s, p) ==
    CandidatesAt(item, CharAt(s, p), CharAt(s, p + 1), CharAt(s, p + 2),
                 CharAt(s, p + 3), IsDigit(CharAt(s, p)), IsDigit(CharAt(s, p + 1)),
                 SpaceRun(s, p))

\* position p in front of the positions of a match, <<>> when there is none
Prepend(p, positions) == IF positions = <<>> THEN <<>> ELSE <<p>> \o positions

\* the first way to match items k.. at position p of s: the start position
\* of every item followed by the position after the last, <<>> when none;
\* lengths are the candidates of item k, first the match of the items behind
\* the first candidate
RECURSIVE Match(_, _, _, _)
RECURSIVE MatchFrom(_, _, _, _, _)
RECURSIVE MatchElse(_, _, _, _, _, _)
MatchElse(items, k, s, p, lengths, first) ==
    IF first # <<>> \/ Len(lengths) = 1 THEN Prepend(p, first)
    ELSE Prepend(p, Match(items, k + 1, s, p + lengths[2]))

MatchFrom(items, k, s, p, lengths) ==
    IF lengths = <<>> THEN <<>>
    ELSE MatchElse(items, k, s, p, lengths, Match(items, k + 1, s, p + lengths[1]))

Match(items, k, s, p) ==
    IF k > Len(items) THEN <<p>>
    ELSE MatchFrom(items, k, s, p, Candidates(items[k], s, p))

\* the text of the items at positions ks of the format, read as numbers by
\* int(); positions are those of a match
Fields(s, positions, ks) ==
    IF positions = <<>> THEN <<>>
    ELSE IF positions[Len(positions)] # Len(s) + 1 THEN <<>>
    ELSE [i \in 1..Len(ks) |->
            NumVal(Strip(SubSeq(s, positions[ks[i]], positions[ks[i] + 1] - 1)))]

\* the numbers of the directives at positions ks of the format, <<>> on
\* ValueError (no match, or unconverted data remains)
Strptime(s, items, ks) == Fields(s, Match(items, 1, s, 1), ks)

DateFormat == <<"%Y", "-", "%m", "-", "%d">>

DateTimeFormat == DateFormat \o <<" ", "%H", ":", "%M">>

TimeFormat == <<" ", "%H", ":", "%M">>

\* date(y, m, d) as a day number, Invalid on ValueError
DateOrInvalid(y, m, d) ==
    IF y >= 1 /\ d <= DaysInMonth(y, m) THEN ToOrdinal(y, m, d) ELSE Invalid

DateOf(v) == IF v = <<>> THEN Invalid ELSE DateOrInvalid(v[1], v[2], v[3])

TimeOf(v) == IF v = <<>> THEN Invalid ELSE 60 * v[1] + v[2]

DateTimeOf(v) ==
    IF v = <<>> THEN Invalid
    ELSE IF DateOf(v) = Invalid THEN Invalid
    ELSE DateOf(v) * 1440 + 60 * v[4] + v[5]

\* datetime.strptime(s, "%Y-%m-%d").date() as a day number, Invalid on
\* ValueError
ParseDate(s) == DateOf(Strptime(s, DateFormat, <<1, 3, 5>>))

\* the time that strptime(f"{date} {time}", "%Y-%m-%d %H:%M") reads after a
\* date that ends the date part, as minutes after midnight, Invalid on
\* ValueError: the blank of the format also takes whitespace in front of t
ParseTime(t) == TimeOf(Strptime(<<" ">> \o t, TimeFormat, <<2, 4>>))

\* datetime.strptime(f"{date} {time}", "%Y-%m-%d %H:%M") as minutes since
\* day 0, Invalid on ValueError
ParseDateTime(d, t) ==
    DateTimeOf(Strptime(d \o <<" ">> \o t, DateTimeFormat, <<1, 3, 5, 7, 9>>))

\* datetime.strftime("%H:%M")
FormatTime(dt) == LET m == dt % 1440
                  IN Pad2(m \div 60) \o <<":">> \o Pad2(m % 60)

(***************************************************************************)
(* Python dict: an insertion-ordered sequence of entries [k, v] with       *)
(* distinct keys                                                           *)
(***************************************************************************)
EmptyDict == <<>>

DictKeys(d) == {d[i].k : i \in 1..Len(d)}

DictHas(d, key) == \E i \in 1..Len(d) : d[i].k = key

\* d.get(key, default)
DictGet(d, key, default) ==
    IF DictHas(d, key)
    THEN d[CHOOSE i \in 1..Len(d) : d[i].k = key].v
    ELSE default

\* d[key] = value: an existing key keeps its position, a new key is added
\* at the end
DictSet(d, key, value) ==
    IF DictHas(d, key)
    THEN [i \in 1..Len(d) |-> IF d[i].k = key THEN [k |-> key, v |-> value]
                                              ELSE d[i]]
    ELSE Append(d, [k |-> key, v |-> value])

(***************************************************************************)
(* Configuration and literals of medical_scheduling_tools.py               *)
(***************************************************************************)
StartHour == 8

EndHour == 17

AppointmentDuration == 1

ScheduleDays == 7

AVAILABLE == <<"a", "v", "a", "i", "l", "a", "b", "l", "e">>

BOOKED == <<"b", "o", "o", "k", "e", "d">>

UNKNOWN_PATIENT == <<"u", "n", "k", "n", "o", "w", "n", " ",
                     "p", "a", "t", "i", "e", "n", "t">>

\* [f"{hour:02d}:00" for hour in range(start_hour, end_hour)]
AvailableTimeSlots ==
    [i \in 1..(EndHour - StartHour) |-> Pad2(StartHour + i - 1) \o <<":", "0", "0">>]

\* {time_slot: "available" for time_slot in available_time_slots}
RECURSIVE FreshDay(_)
FreshDay(n) ==
    IF n = 0 THEN EmptyDict
    ELSE DictSet(FreshDay(n - 1), AvailableTimeSlots[n], AVAILABLE)

\* initialize_medical_schedule: the first n iterations of the loop over
\* day_offset, applied to the global dict sched with date.today() = cur
RECURSIVE InitializeDays(_, _, _)
InitializeDays(sched, cur, n) ==
    IF n = 0 THEN sched
    ELSE DictSet(InitializeDays(sched, cur, n - 1),
                 FormatDate(cur + n - 1),
                 FreshDay(Len(AvailableTimeSlots)))

\* variant: the populated window starts one day late
initialize_medical_schedule_Tomorrow(sched, cur) ==
    InitializeDays(sched, cur + 1, ScheduleDays)

initialize_medical_schedule(sched, cur) == InitializeDays(sched, cur, ScheduleDays)

(***************************************************************************)
(* book_medical_appointment                                                *)
(***************************************************************************)
\* variant: the loop leaves out the hours outside the office hours
RECURSIVE RequiredTimeSlots_InHours(_, _)
RequiredTimeSlots_InHours(cur, end) ==
    IF cur < end
    THEN (IF StartHour * 60 <= cur % 1440 /\ cur % 1440 < EndHour * 60
          THEN <<FormatTime(cur)>> ELSE <<>>)
         \o RequiredTimeSlots_InHours(cur + 60 * AppointmentDuration, end)
    ELSE <<>>

\* the while loop that collects required_time_slots
RECURSIVE RequiredTimeSlots(_, _)
RequiredTimeSlots(cur, end) ==
    IF cur < end
    THEN <<FormatTime(cur)>> \o RequiredTimeSlots(cur + 60 * AppointmentDuration, end)
    ELSE <<>>

\* variant: only a slot missing from the day counts as a conflict
SlotConflicts_MissingOnly(daily, slot) == ~DictHas(daily, slot)

\* variant: a slot missing from the day is taken as available
SlotConflicts_DefaultAvailable(daily, slot) ==
    DictGet(daily, slot, AVAILABLE) # AVAILABLE

\* the test of the availability loop for one slot
SlotConflicts(daily, slot) == DictGet(daily, slot, BOOKED) # AVAILABLE

\* variant: the availability loop looks at the first required slot only
FirstConflict_OnlyFirst(daily, slots) ==
    IF Len(slots) > 0 /\ SlotConflicts(daily, slots[1]) THEN 1 ELSE 0

\* index of the first required slot on which the availability loop returns,
\* 0 when the loop runs to its end
FirstConflict(daily, slots) ==
    IF \E i \in 1..Len(slots) : SlotConflicts(daily, slots[i])
    THEN CHOOSE i \in 1..Len(slots) :
             /\ SlotConflicts(daily, slots[i])
             /\ \A j \in 1..(i - 1) : ~SlotConflicts(daily, slots[j])
    ELSE 0

\* variant: the slot is marked with the appointment type only
PatientBookingInfo_TypeOnly(name, type) == type

\* variant: the slot is marked with the bare patient name
PatientBookingInfo_NameOnly(name, type) == name

\* f"{patient_name} ({appointment_type})"
PatientBookingInfo(name, type) == name \o <<" ", "(">> \o type \o <<")">>

\* the loop that books all required slots
RECURSIVE BookSlots(_, _, _, _)
BookSlots(sched, date, slots, info) ==
    IF Len(slots) = 0 THEN sched
    ELSE BookSlots(DictSet(sched, date,
                           DictSet(DictGet(sched, date, EmptyDict), slots[1], info)),
                   date, Tail(slots), info)

\* not patient_name or not patient_name.strip()
MissingPatientName(name) == Len(name) = 0 \/ Len(Strip(name)) = 0

\* variant: the date is looked up before the time range is compared
BookResult_DateFirst(sched, date, st, et, name, type, id) ==
    LET appointment_start == ParseDateTime(date, st)
        appointment_end   == ParseDateTime(date, et)
    IN
    IF MissingPatientName(name)
    THEN [status |-> "error", error_code |-> "MISSING_PATIENT_NAME"]
    ELSE IF appointment_start = Invalid \/ appointment_end = Invalid
    THEN [status |-> "error", error_code |-> "INVALID_DATETIME_FORMAT"]
    ELSE IF ~DictHas(sched, date)
    THEN [status |-> "error", error_code |-> "DATE_NOT_AVAILABLE"]
    ELSE IF appointment_start >= appointment_end
    THEN [status |-> "error", error_code |-> "INVALID_TIME_RANGE"]
    ELSE LET slots == RequiredTimeSlots(appointment_start, appointment_end)
             daily == DictGet(sched, date, EmptyDict)
             c     == FirstConflict(daily, slots)
         IN IF c # 0
            THEN [status |-> "error", error_code |-> "SLOT_ALREADY_BOOKED",
                  conflicting_slot |-> slots[c],
                  existing_patient |-> DictGet(daily, slots[c], UNKNOWN_PATIENT)]
            ELSE [status |-> "success", error_code |-> "NONE",
                  appointment_id |-> id, patient_name |-> name,
                  appointment_type |-> type, date |-> date,
                  start_time |-> st, end_time |-> et,
                  duration_hours |-> Len(slots), booked_slots |-> slots]

\* the value returned by book_medical_appointment(date, st, et, name, type)
\* on calendar sched; id is the token drawn from uuid4
BookResult(sched, date, st, et, name, type, id) ==
    LET appointment_start == ParseDateTime(date, st)
        appointment_end   == ParseDateTime(date, et)
    IN
    IF MissingPatientName(name)
    THEN [status |-> "error", error_code |-> "MISSING_PATIENT_NAME"]
    ELSE IF appointment_start = Invalid \/ appointment_end = Invalid
    THEN [status |-> "error", error_code |-> "INVALID_DATETIME_FORMAT"]
    ELSE IF appointment_start >= appointment_end
    THEN [status |-> "error", error_code |-> "INVALID_TIME_RANGE"]
    ELSE IF ~DictHas(sched, date)
    THEN [status |-> "error", error_code |-> "DATE_NOT_AVAILABLE"]
    ELSE LET slots == RequiredTimeSlots(appointment_start, appointment_end)
             daily == DictGet(sched, date, EmptyDict)
             c     == FirstConflict(daily, slots)
         IN IF c # 0
            THEN [status |-> "error", error_code |-> "SLOT_ALREADY_BOOKED",
                  conflicting_slot |-> slots[c],
                  existing_patient |-> DictGet(daily, slots[c], UNKNOWN_PATIENT)]
            ELSE [status |-> "success", error_code |-> "NONE",
                  appointment_id |-> id, patient_name |-> name,
                  appointment_type |-> type, date |-> date,
                  start_time |-> st, end_time |-> et,
                  duration_hours |-> Len(slots), booked_slots |-> slots]

\* variant: the slots in front of the conflicting one are booked before the
\* conflict is found
BookEffect_Partial(sched, date, st, et, name, type, r) ==
    IF /\ r.status = "success" \/ r.error_code = "SLOT_ALREADY_BOOKED"
       /\ ParseDateTime(date, st) # Invalid /\ ParseDateTime(date, et) # Invalid
    THEN LET slots == RequiredTimeSlots(ParseDateTime(date, st),
                                        ParseDateTime(date, et))
             c     == FirstConflict(DictGet(sched, date, EmptyDict), slots)
         IN BookSlots(sched, date,
                      IF c = 0 THEN slots ELSE SubSeq(slots, 1, c - 1),
                      PatientBookingInfo(name, type))
    ELSE sched

\* the calendar after a call of book_medical_appointment that returns r:
\* the booking loop runs over required_time_slots only when no check returned
BookEffect(sched, date, st, et, name, type, r) ==
    LET appointment_start == ParseDateTime(date, st)
        appointment_end   == ParseDateTime(date, et)
    IN
    IF r.status = "success" /\ appointment_start # Invalid /\ appointment_end # Invalid
    THEN BookSlots(sched, date,
                   RequiredTimeSlots(appointment_start, appointment_end),
                   PatientBookingInfo(name, type))
    ELSE sched

(***************************************************************************)
(* list_appointment_availabilities                                         *)
(***************************************************************************)
\* [k for k, v in daily.items() if v == "available"]
RECURSIVE AvailableSlotsOf(_)
AvailableSlotsOf(daily) ==
    IF Len(daily) = 0 THEN <<>>
    ELSE (IF daily[1].v = AVAILABLE THEN <<daily[1].k>> ELSE <<>>)
         \o AvailableSlotsOf(Tail(daily))

\* variant: the booked appointments are all entries of the day
BookedAppointmentsOf_All(daily) == daily

\* {k: v for k, v in daily.items() if v != "available"}
RECURSIVE BookedAppointmentsOf(_)
BookedAppointmentsOf(daily) ==
    IF Len(daily) = 0 THEN EmptyDict
    ELSE (IF daily[1].v # AVAILABLE THEN <<daily[1]>> ELSE <<>>)
         \o BookedAppointmentsOf(Tail(daily))

\* variant: a date without a day schedule is an error
ListResult_MissingIsError(sched, now, date) ==
    LET requested_date == ParseDate(date) IN
    IF requested_date = Invalid
    THEN [status |-> "error", error_code |-> "INVALID_DATE_FORMAT"]
    ELSE IF requested_date < now
    THEN [status |-> "error", error_code |-> "PAST_DATE_NOT_ALLOWED"]
    ELSE LET daily == DictGet(sched, date, EmptyDict) IN
         IF Len(daily) = 0
         THEN [status |-> "error", error_code |-> "DATE_NOT_AVAILABLE"]
         ELSE [status |-> "success", error_code |-> "NONE",
               available_slots |-> AvailableSlotsOf(daily),
               booked_appointments |-> BookedAppointmentsOf(daily),
               total_slots |-> Len(daily),
               available_count |-> Len(AvailableSlotsOf(daily)),
               booked_count |-> Len(BookedAppointmentsOf(daily))]

\* variant: the past-date check also rejects the current date
ListResult_NotAfter(sched, now, date) ==
    LET requested_date == ParseDate(date) IN
    IF requested_date = Invalid
    THEN [status |-> "error", error_code |-> "INVALID_DATE_FORMAT"]
    ELSE IF requested_date <= now
    THEN [status |-> "error", error_code |-> "PAST_DATE_NOT_ALLOWED"]
    ELSE LET daily == DictGet(sched, date, EmptyDict) IN
         IF Len(daily) = 0
         THEN [status |-> "success", error_code |-> "NONE",
               available_slots |-> <<>>, booked_appointments |-> EmptyDict,
               total_slots |-> 0]
         ELSE [status |-> "success", error_code |-> "NONE",
               available_slots |-> AvailableSlotsOf(daily),
               booked_appointments |-> BookedAppointmentsOf(daily),
               total_slots |-> Len(daily),
               available_count |-> Len(AvailableSlotsOf(daily)),
               booked_count |-> Len(BookedAppointmentsOf(daily))]

\* the value returned by list_appointment_availabilities(date) on calendar
\* sched when date.today() = now
ListResult(sched, now, date) ==
    LET requested_date == ParseDate(date) IN
    IF requested_date = Invalid
    THEN [status |-> "error", error_code |-> "INVALID_DATE_FORMAT"]
    ELSE IF requested_date < now
    THEN [status |-> "error", error_code |-> "PAST_DATE_NOT_ALLOWED"]
    ELSE LET daily == DictGet(sched, date, EmptyDict) IN
         IF Len(daily) = 0
         THEN [status |-> "success", error_code |-> "NONE",
               available_slots |-> <<>>, booked_appointments |-> EmptyDict,
               total_slots |-> 0]
         ELSE [status |-> "success", error_code |-> "NONE",
               available_slots |-> AvailableSlotsOf(daily),
               booked_appointments |-> BookedAppointmentsOf(daily),
               total_slots |-> Len(daily),
               available_count |-> Len(AvailableSlotsOf(daily)),
               booked_count |-> Len(BookedAppointmentsOf(daily))]

(***************************************************************************)
(* Inputs of the calls                                                     *)
(***************************************************************************)
\* date.today() when the module is loaded
LoadDate == ToOrdinal(2024, 6, 27)

D_TODAY == <<"2", "0", "2", "4", "-", "0", "6", "-", "2", "7">>

D_JUL1 == <<"2", "0", "2", "4", "-", "0", "7", "-", "0", "1">>

D_UNPADDED == <<"2", "0", "2", "4", "-", "7", "-", "1">>

D_AFTER == <<"2", "0", "2", "4", "-", "0", "7", "-", "0", "4">>

D_PAST == <<"2", "0", "2", "4", "-", "0", "6", "-", "2", "6">>

D_BAD == <<"2", "0", "2", "4", "-", "0", "2", "-", "3", "0">>

\* 2024-07- 1: the day is a blank and a digit
D_BLANKDAY == <<"2", "0", "2", "4", "-", "0", "7", "-", " ", "1">>

\* 2024-07-0 followed by ARABIC-INDIC DIGIT ONE
D_ARABIC == <<"2", "0", "2", "4", "-", "0", "7", "-", "0", Chr(1633)>>

DateInputs == {D_TODAY, D_JUL1, D_UNPADDED, D_AFTER, D_PAST, D_BAD, D_BLANKDAY,
               D_ARABIC}

T_0900 == <<"0", "9", ":", "0", "0">>

T_900 == <<"9", ":", "0", "0">>

\* 09:00 behind a blank
T_SP0900 == <<" ", "0", "9", ":", "0", "0">>

\* 1 and FULLWIDTH DIGIT ZERO for the hour 10
T_WIDE1000 == <<"1", Chr(65296), ":", "0", "0">>

T_0930 == <<"0", "9", ":", "3", "0">>

T_1000 == <<"1", "0", ":", "0", "0">>

T_1100 == <<"1", "1", ":", "0", "0">>

T_1200 == <<"1", "2", ":", "0", "0">>

T_1030 == <<"1", "0", ":", "3", "0">>

T_0700 == <<"0", "7", ":", "0", "0">>

T_1800 == <<"1", "8", ":", "0", "0">>

T_BAD == <<"9", "a", "m">>

P_EMPTY == <<>>

P_BLANK == <<" ">>

P_TAB == <<"\t">>

P_JO == <<"J", "o">>

CONSULTATION == <<"c", "o", "n", "s", "u", "l", "t", "a", "t", "i", "o", "n">>

IdTokens == {"3f2a9c1e", "b07d44e2"}

NoId == "none"

(***************************************************************************)
(* The engine called sequentially: one action per call                     *)
(***************************************************************************)
\* number of threads that call book_medical_appointment at the same time
NumBookThreads == 2

BookThreads == 1..NumBookThreads

ListThreads == {NumBookThreads + 1}

ThreadIds == BookThreads \cup ListThreads

IdleThread == [pc |-> "idle"]

Init ==
    /\ today = LoadDate
    /\ schedule = initialize_medical_schedule(EmptyDict, LoadDate)
    /\ last = [op |-> "initialize"]
    /\ committed = {}
    /\ threads = [t \in ThreadIds |-> IdleThread]
    /\ office = "host"
    /\ roster = EmptyDict
    /\ executor = [pc |-> "idle"]

\* the slots a successful result covers, as (date, slot, occupant) triples
Covered(date, r) ==
    IF r.status = "success"
    THEN {<<date, r.booked_slots[i], r.patient_name>> : i \in 1..Len(r.booked_slots)}
    ELSE {}

\* one call of book_medical_appointment; uuid4 is drawn only by a call that
\* passed every check
BookAppointment(date, st, et, name, type) ==
    \E r0 \in {BookResult(schedule, date, st, et, name, type, NoId)} :
    \E id \in (IF r0.status = "success" THEN IdTokens ELSE {NoId}) :
        LET r == IF r0.status = "success"
                 THEN [r0 EXCEPT !.appointment_id = id] ELSE r0
        IN
        /\ schedule' = BookEffect(schedule, date, st, et, name, type, r)
        /\ last' = [op |-> "book", date |-> date, start_time |-> st,
                    end_time |-> et, patient_name |-> name,
                    appointment_type |-> type, result |-> r]
        /\ committed' = committed \cup Covered(date, r)
        /\ UNCHANGED <<executor, office, roster, today, threads>>

ListAvailability(date) ==
    /\ last' = [op |-> "list", date |-> date,
                result |-> ListResult(schedule, today, date)]
    /\ UNCHANGED <<executor, office, roster, schedule, today, committed, threads>>

\* requests for the populated date 2024-07-01: every span over the morning
\* slots, with start and end on and off the slot grid
SpanRequests ==
    {<<D_JUL1, st, et, P_JO, CONSULTATION>> :
        st \in {T_0900, T_0930, T_1000, T_1100},
        et \in {T_1000, T_1030, T_1100, T_1200}}

\* spans asked for by a second occupant, whose name is the literal that
\* marks a free slot
RivalRequests ==
    {<<D_JUL1, tt[1], tt[2], AVAILABLE, CONSULTATION>> :
        tt \in {<<T_0900, T_1000>>, <<T_1000, T_1100>>, <<T_1000, T_1200>>,
                <<T_0900, T_1200>>}}

\* spans that reach outside the office hours, a booking on a second
\* populated date, an occupant that is the empty string or a tab, times
\* written with a leading blank and a fullwidth digit, and a date whose day
\* is written with a blank
OtherRequests ==
    {<<D_JUL1, T_0700, T_1000, P_JO, CONSULTATION>>,
     <<D_JUL1, T_1100, T_1800, P_JO, CONSULTATION>>,
     <<D_TODAY, T_0900, T_1100, P_JO, CONSULTATION>>,
     <<D_BAD, T_0900, T_BAD, P_EMPTY, CONSULTATION>>,
     <<D_JUL1, T_SP0900, T_WIDE1000, P_JO, CONSULTATION>>,
     <<D_JUL1, T_0900, T_1000, P_TAB, CONSULTATION>>,
     <<D_BLANKDAY, T_0900, T_1000, P_JO, CONSULTATION>>}

\* requests that fail one or several of the checks made before the slots
\* are looked at, and their well-formed counterparts
CheckRequests ==
    {<<date, tt[1], tt[2], name, CONSULTATION>> :
        date \in {D_JUL1, D_UNPADDED, D_AFTER, D_BAD},
        tt \in {<<T_900, T_1000>>, <<T_1000, T_0900>>, <<T_BAD, T_1000>>},
        name \in {P_BLANK, P_JO}}

BookRequests == SpanRequests \cup RivalRequests \cup OtherRequests \cup CheckRequests

Book == \E q \in BookRequests : BookAppointment(q[1], q[2], q[3], q[4], q[5])

List == \E date \in DateInputs : ListAvailability(date)

Next == Book \/ List

Spec == Init /\ [][Next]_vars

(***************************************************************************)
(* The same calls while the process runs across midnights: date.today()    *)
(* moves on, the calendar was populated when the module was loaded.        *)
(***************************************************************************)
MaxClockDays == 2

D_NEXT == <<"2", "0", "2", "4", "-", "0", "6", "-", "2", "8">>

ClockListDates == {D_PAST, D_TODAY, D_NEXT, D_JUL1, D_AFTER, D_BAD}

ClockBookRequests ==
    {<<D_TODAY, T_0900, T_1100, P_JO, CONSULTATION>>,
     <<D_JUL1, T_0900, T_1000, P_JO, CONSULTATION>>,
     <<D_NEXT, T_1000, T_1200, P_JO, CONSULTATION>>,
     <<D_PAST, T_0900, T_1000, P_JO, CONSULTATION>>}

\* midnight passes: date.today() returns the next day from now on
Tick ==
    /\ today < LoadDate + MaxClockDays
    /\ today' = today + 1
    /\ UNCHANGED <<executor, office, roster, schedule, last, committed, threads>>

BookClock == \E q \in ClockBookRequests : BookAppointment(q[1], q[2], q[3], q[4], q[5])

ListClock == \E date \in ClockListDates : ListAvailability(date)

NextClock == BookClock \/ ListClock \/ Tick

SpecClock == Init /\ [][NextClock]_vars

(***************************************************************************)
(* The same process when initialize_medical_schedule is called again on    *)
(* the global calendar, at any time after loading.                         *)
(***************************************************************************)
\* a call of initialize_medical_schedule() after the module is loaded; the
\* bookings whose day the call writes anew are no longer in the calendar
Reinitialize ==
    /\ schedule' = initialize_medical_schedule(schedule, today)
    /\ last' = [op |-> "initialize"]
    /\ committed' = {p \in committed :
                        p[1] \notin DictKeys(initialize_medical_schedule(EmptyDict, today))}
    /\ UNCHANGED <<executor, today, threads, office, roster>>

NextReinit == BookClock \/ ListClock \/ Tick \/ Reinitialize

SpecReinit == Init /\ [][NextReinit]_vars

(***************************************************************************)
(* The engine called from several threads of one process.  The module has  *)
(* no lock, so a thread can be preempted between two iterations of a loop: *)
(* every dict read and every dict write of a call is a step of its own.    *)
(***************************************************************************)
ConcBookRequests ==
    {<<D_JUL1, T_0900, T_1100, P_JO, CONSULTATION>>,
     <<D_JUL1, T_1000, T_1200, AVAILABLE, CONSULTATION>>,
     <<D_JUL1, T_0900, T_1000, AVAILABLE, CONSULTATION>>,
     <<D_AFTER, T_0900, T_1000, P_JO, CONSULTATION>>}

ConcListDates == {D_JUL1, D_PAST}

\* book_medical_appointment up to the end of the while loop that collects
\* required_time_slots
CallBook(t, q) ==
    /\ threads[t].pc = "idle"
    /\ LET date  == q[1]
           start == ParseDateTime(q[1], q[2])
           end   == ParseDateTime(q[1], q[3])
           call  == [op |-> "book", date |-> q[1], start_time |-> q[2],
                     end_time |-> q[3], patient_name |-> q[4],
                     appointment_type |-> q[5]]
       IN IF \/ MissingPatientName(q[4])
             \/ start = Invalid \/ end = Invalid
             \/ start >= end
             \/ ~DictHas(schedule, date)
          THEN threads' = [threads EXCEPT ![t] =
                   call @@ [pc |-> "returned",
                            result |-> BookResult(schedule, q[1], q[2], q[3],
                                                  q[4], q[5], NoId)]]
          ELSE threads' = [threads EXCEPT ![t] =
                   call @@ [pc |-> "check", i |-> 1,
                            slots |-> RequiredTimeSlots(start, end)]]
    /\ UNCHANGED <<executor, office, roster, schedule, today, last, committed>>

\* one iteration of the loop that checks the availability of the slots
CheckSlot(t) ==
    /\ threads[t].pc = "check"
    /\ LET th    == threads[t]
           daily == DictGet(schedule, th.date, EmptyDict)
           slot  == th.slots[th.i]
       IN IF SlotConflicts(daily, slot)
          THEN threads' = [threads EXCEPT ![t] =
                   [th EXCEPT !.pc = "returned"] @@
                   [result |-> [status |-> "error",
                                error_code |-> "SLOT_ALREADY_BOOKED",
                                conflicting_slot |-> slot,
                                existing_patient |->
                                    DictGet(daily, slot, UNKNOWN_PATIENT)]]]
          ELSE IF th.i < Len(th.slots)
          THEN threads' = [threads EXCEPT ![t].i = th.i + 1]
          ELSE threads' = [threads EXCEPT ![t].pc = "book", ![t].i = 1]
    /\ UNCHANGED <<executor, office, roster, schedule, today, last, committed>>

\* one iteration of the loop that books the slots, and the return after the
\* last one; the token of uuid4, which the code draws in front of the loop
\* and uses in the returned value only, is chosen with the return
BookSlot(t) ==
    /\ threads[t].pc = "book"
    /\ \E id \in IdTokens :
       LET th == threads[t] IN
       /\ schedule' = BookSlots(schedule, th.date, <<th.slots[th.i]>>,
                                PatientBookingInfo(th.patient_name,
                                                   th.appointment_type))
       /\ IF th.i < Len(th.slots)
          THEN /\ threads' = [threads EXCEPT ![t].i = th.i + 1]
               /\ UNCHANGED committed
          ELSE /\ threads' = [threads EXCEPT ![t] =
                      [th EXCEPT !.pc = "returned"] @@
                      [result |-> [status |-> "success", error_code |-> "NONE",
                                   appointment_id |-> id,
                                   patient_name |-> th.patient_name,
                                   appointment_type |-> th.appointment_type,
                                   date |-> th.date,
                                   start_time |-> th.start_time,
                                   end_time |-> th.end_time,
                                   duration_hours |-> Len(th.slots),
                                   booked_slots |-> th.slots]]]
               /\ committed' = committed \cup
                      {<<th.date, th.slots[k], th.patient_name>> :
                           k \in 1..Len(th.slots)}
    /\ UNCHANGED <<executor, office, roster, today, last>>

\* list_appointment_availabilities up to the lookup of the day
CallList(t, date) ==
    /\ threads[t].pc = "idle"
    /\ LET call == [op |-> "list", date |-> date] IN
       IF \/ ParseDate(date) = Invalid
          \/ ParseDate(date) < today
          \/ Len(DictGet(schedule, date, EmptyDict)) = 0
       THEN threads' = [threads EXCEPT ![t] =
                call @@ [pc |-> "returned",
                         result |-> ListResult(schedule, today, date)]]
       ELSE threads' = [threads EXCEPT ![t] =
                call @@ [pc |-> "scan_available", i |-> 1,
                         available_slots |-> <<>>,
                         booked_appointments |-> EmptyDict]]
    /\ UNCHANGED <<executor, office, roster, schedule, today, last, committed>>

\* one iteration of the comprehension that collects available_time_slots
ScanAvailable(t) ==
    /\ threads[t].pc = "scan_available"
    /\ LET th    == threads[t]
           daily == DictGet(schedule, th.date, EmptyDict)
           e     == daily[th.i]
           found == IF e.v = AVAILABLE THEN Append(th.available_slots, e.k)
                    ELSE th.available_slots
       IN threads' = [threads EXCEPT
              ![t].available_slots = found,
              ![t].i = IF th.i < Len(daily) THEN th.i + 1 ELSE 1,
              ![t].pc = IF th.i < Len(daily) THEN "scan_available"
                        ELSE "scan_booked"]
    /\ UNCHANGED <<executor, office, roster, schedule, today, last, committed>>

\* one iteration of the comprehension that collects booked_appointments, and
\* the return after the last one
ScanBooked(t) ==
    /\ threads[t].pc = "scan_booked"
    /\ LET th    == threads[t]
           daily == DictGet(schedule, th.date, EmptyDict)
           e     == daily[th.i]
           found == IF e.v # AVAILABLE THEN Append(th.booked_appointments, e)
                    ELSE th.booked_appointments
       IN IF th.i < Len(daily)
          THEN threads' = [threads EXCEPT ![t].booked_appointments = found,
                                          ![t].i = th.i + 1]
          ELSE threads' = [threads EXCEPT ![t] =
                   [th EXCEPT !.pc = "returned",
                              !.booked_appointments = found] @@
                   [result |-> [status |-> "success", error_code |-> "NONE",
                                available_slots |-> th.available_slots,
                                booked_appointments |-> found,
                                total_slots |-> Len(daily),
                                available_count |-> Len(th.available_slots),
                                booked_count |-> Len(found)]]]
    /\ UNCHANGED <<executor, office, roster, schedule, today, last, committed>>

BeginBook == \E t \in BookThreads, q \in ConcBookRequests : CallBook(t, q)

StepCheck == \E t \in BookThreads : CheckSlot(t)

StepBook == \E t \in BookThreads : BookSlot(t)

BeginList == \E t \in ListThreads, date \in ConcListDates : CallList(t, date)

StepScanAvailable == \E t \in ListThreads : ScanAvailable(t)

StepScanBooked == \E t \in ListThreads : ScanBooked(t)

NextConc == \/ BeginBook
            \/ StepCheck
            \/ StepBook
            \/ BeginList
            \/ StepScanAvailable
            \/ StepScanBooked

SpecConc == Init /\ [][NextConc]_vars

(***************************************************************************)
(* The read-only calendars: neurologist_agent_adk/agent.py and             *)
(* pulmonologist_agent_crewai/agent.py.  Each is its own process, which    *)
(* draws six of the nine office hours for each of seven days when the      *)
(* module is loaded and answers date-range queries from that calendar.     *)
(***************************************************************************)
SlotsPerDay == 6

\* code point order of the characters of a time string
CharRank(c) == IF IsAsciiDigit(c) THEN AsciiDigitVal(c) ELSE 10

\* a < b for str
RECURSIVE StrLess(_, _)
StrLess(a, b) ==
    IF Len(b) = 0 THEN FALSE
    ELSE IF Len(a) = 0 THEN TRUE
    ELSE IF CharRank(a[1]) # CharRank(b[1]) THEN CharRank(a[1]) < CharRank(b[1])
    ELSE StrLess(Tail(a), Tail(b))

RECURSIVE InsertSorted(_, _)
InsertSorted(x, seq) ==
    IF Len(seq) = 0 THEN <<x>>
    ELSE IF StrLess(x, seq[1]) THEN <<x>> \o seq
    ELSE <<seq[1]>> \o InsertSorted(x, Tail(seq))

\* variant: the sample is stored in the order drawn
Sorted_AsDrawn(seq) == seq

\* sorted(list of str)
RECURSIVE Sorted(_)
Sorted(seq) ==
    IF Len(seq) = 0 THEN <<>>
    ELSE InsertSorted(seq[Len(seq)], Sorted(SubSeq(seq, 1, Len(seq) - 1)))

\* random.sample(population, k): draw is the sequence of the k distinct
\* positions drawn, in the order drawn
Sample(population, k, draw) == [i \in 1..k |-> population[draw[i]]]

\* the draws a day can get
SampleDraws == {<<9, 1, 5, 3, 7, 2>>, <<4, 6, 8, 1, 2, 9>>}

\* [f"{hour:02d}:00" for hour in range(office_hours_start, office_hours_end)]
office_time_slots == [i \in 1..9 |-> Pad2(8 + i - 1) \o <<":", "0", "0">>]

\* [f"{h:02}:00" for h in range(8, 17)]
possible_times == [i \in 1..9 |-> Pad2(8 + i - 1) \o <<":", "0", "0">>]

\* the loop over the days: day n gets the sorted sample of draws[n]
RECURSIVE GenerateDays(_, _, _, _, _)
GenerateDays(times, k, cur, n, draws) ==
    IF n = 0 THEN EmptyDict
    ELSE DictSet(GenerateDays(times, k, cur, n - 1, draws),
                 FormatDate(cur + n - 1),
                 Sorted(Sample(times, k, draws[n])))

initialize_neurologist_appointment_schedule(cur, draws) ==
    GenerateDays(office_time_slots, SlotsPerDay, cur, 7, draws)

generate_appointment_schedule(cur, draws) ==
    GenerateDays(possible_times, 6, cur, 7, draws)

\* variant: the loop stops one day before the end date
RangeLines_Exclusive(sched, start, n) ==
    [i \in 1..(n - 1) |-> [date  |-> FormatDate(start + i - 1),
                           slots |-> DictGet(sched, FormatDate(start + i - 1), <<>>)]]

\* one entry per day of the range: the date string and the times the
\* calendar holds for it, the empty list standing for the line that says
\* that no slots are available
RangeLines(sched, start, n) ==
    [i \in 1..n |-> [date  |-> FormatDate(start + i - 1),
                     slots |-> DictGet(sched, FormatDate(start + i - 1), <<>>)]]

\* variant: the past-date check comes before the check of the range order
check_neurologist_appointment_availability_PastFirst(sched, now, start, end) ==
    LET a == ParseDate(start)
        b == ParseDate(end)
    IN IF a = Invalid \/ b = Invalid
       THEN [status |-> "error", error_code |-> "INVALID_DATE_FORMAT"]
       ELSE IF b < now
       THEN [status |-> "error", error_code |-> "ALL_PAST_DATES"]
       ELSE IF a > b
       THEN [status |-> "error", error_code |-> "INVALID_DATE_RANGE"]
       ELSE [status |-> "success", error_code |-> "NONE",
             lines |-> RangeLines(sched, a, b - a + 1)]

\* the value of check_neurologist_appointment_availability(start, end) on
\* calendar sched when date.today() = now; the three error strings are named
\* by the failure they report
check_neurologist_appointment_availability(sched, now, start, end) ==
    LET a == ParseDate(start)
        b == ParseDate(end)
    IN IF a = Invalid \/ b = Invalid
       THEN [status |-> "error", error_code |-> "INVALID_DATE_FORMAT"]
       ELSE IF a > b
       THEN [status |-> "error", error_code |-> "INVALID_DATE_RANGE"]
       ELSE IF b < now
       THEN [status |-> "error", error_code |-> "ALL_PAST_DATES"]
       ELSE [status |-> "success", error_code |-> "NONE",
             lines |-> RangeLines(sched, a, b - a + 1)]

\* str.split(sep) for a separator of one or more characters
RECURSIVE SplitStr(_, _)
SplitStr(s, sep) ==
    IF Len(s) < Len(sep) THEN <<s>>
    ELSE IF SubSeq(s, 1, Len(sep)) = sep
    THEN << <<>> >> \o SplitStr(SubSeq(s, Len(sep) + 1, Len(s)), sep)
    ELSE LET r == SplitStr(Tail(s), sep)
         IN << <<Head(s)>> \o Head(r) >> \o Tail(r)

\* the value of AppointmentAvailabilityTool._run(date_range) on calendar
\* sched; the two error strings are named by the failure they report
AppointmentAvailabilityTool_run(sched, date_range) ==
    LET dates_to_check == SplitStr(date_range, <<"t", "o">>)
        a == ParseDate(Strip(dates_to_check[1]))
        b == ParseDate(Strip(dates_to_check[Len(dates_to_check)]))
    IN IF a = Invalid \/ b = Invalid
       THEN [status |-> "error", error_code |-> "INVALID_DATE_FORMAT"]
       ELSE IF a > b
       THEN [status |-> "error", error_code |-> "INVALID_DATE_RANGE"]
       ELSE [status |-> "success", error_code |-> "NONE",
             lines |-> RangeLines(sched, a, b - a + 1)]

D_PAST2 == <<"2", "0", "2", "4", "-", "0", "6", "-", "2", "5">>

\* (start, end) of the range queries: wholly past, straddling the current
\* date, inside and beyond the populated week, reversed, malformed
RangePairs ==
    {<<D_PAST2, D_PAST>>, <<D_PAST, D_PAST2>>, <<D_PAST, D_PAST>>,
     <<D_PAST, D_TODAY>>, <<D_PAST2, D_NEXT>>, <<D_TODAY, D_TODAY>>,
     <<D_TODAY, D_NEXT>>, <<D_NEXT, D_TODAY>>, <<D_JUL1, D_AFTER>>,
     <<D_UNPADDED, D_JUL1>>, <<D_BAD, D_TODAY>>, <<D_TODAY, D_BAD>>,
     <<D_BAD, D_PAST>>, <<D_NEXT, D_PAST>>}

\* '2024-07-28 to 2024-07-30'
JoinTo(start, end) == start \o <<" ", "t", "o", " ">> \o end

\* the date_range strings of the pulmonologist tool, with the start and end
\* date the caller wrote into them: ranges, single dates, and a range written
\* with a tab and a line break around "to"
RunRequests ==
    {[date_range |-> JoinTo(p[1], p[2]), start_date |-> p[1], end_date |-> p[2]] :
        p \in RangePairs}
    \cup {[date_range |-> d, start_date |-> d, end_date |-> d] :
            d \in {D_PAST, D_TODAY, D_BAD}}
    \cup {[date_range |-> D_TODAY \o <<"\t", "t", "o", "\n">> \o D_NEXT,
            start_date |-> D_TODAY, end_date |-> D_NEXT]}

\* the process of one of the two offices after its module is loaded
InitRange ==
    /\ today = LoadDate
    /\ schedule = EmptyDict
    /\ last = [op |-> "initialize"]
    /\ committed = {}
    /\ threads = [t \in ThreadIds |-> IdleThread]
    /\ office \in {"neurologist", "pulmonologist"}
    /\ executor = [pc |-> "idle"]
    /\ \E draws \in [1..7 -> SampleDraws] :
           roster = IF office = "neurologist"
                    THEN initialize_neurologist_appointment_schedule(LoadDate, draws)
                    ELSE generate_appointment_schedule(LoadDate, draws)

CheckNeurologist(start, end) ==
    /\ office = "neurologist"
    /\ last' = [op |-> "range", start_date |-> start, end_date |-> end,
                result |-> check_neurologist_appointment_availability(
                               roster, today, start, end)]
    /\ UNCHANGED <<executor, schedule, today, committed, threads, office, roster>>

RunPulmonologist(q) ==
    /\ office = "pulmonologist"
    /\ last' = [op |-> "range", start_date |-> q.start_date,
                end_date |-> q.end_date, date_range |-> q.date_range,
                result |-> AppointmentAvailabilityTool_run(roster, q.date_range)]
    /\ UNCHANGED <<executor, schedule, today, committed, threads, office, roster>>

CheckRange == \E p \in RangePairs : CheckNeurologist(p[1], p[2])

RunRange == \E q \in RunRequests : RunPulmonologist(q)

NextRange == CheckRange \/ RunRange

SpecRange == InitRange /\ [][NextRange]_vars

(***************************************************************************)
(* neurologist_agent_adk/agent_executor.py: one call of                    *)
(* NeurologistAgentExecutor.execute.  The runner's event stream is a       *)
(* sequence of events; the calls made on the TaskUpdater are logged in     *)
(* order, each with the index of the event it was made for (0 before the   *)
(* loop).  The coroutine is one step from each await to the next: the      *)
(* awaits of get_session and create_session and that of every event.       *)
(***************************************************************************)
MaxEvents == 3

\* an event of the runner: is_final_response(), whether get_function_calls()
\* is non-empty, and whether its parts convert without ValueError
EventKinds ==
    {[final |-> FALSE, calls |-> FALSE, parts_ok |-> TRUE],
     [final |-> FALSE, calls |-> TRUE,  parts_ok |-> TRUE],
     [final |-> TRUE,  calls |-> FALSE, parts_ok |-> TRUE],
     [final |-> TRUE,  calls |-> TRUE,  parts_ok |-> TRUE],
     [final |-> FALSE, calls |-> FALSE, parts_ok |-> FALSE],
     [final |-> TRUE,  calls |-> FALSE, parts_ok |-> FALSE]}

EventStreams == UNION {[1..n -> EventKinds] : n \in 0..MaxEvents}

\* a request context, with what the session service answers for its
\* context id: get_session gives a session when existing_session, else
\* create_session gives one when session_ok
GoodRequest ==
    [task_id |-> TRUE, context_id |-> TRUE, message |-> TRUE,
     current_task |-> FALSE, parts_ok |-> TRUE, existing_session |-> TRUE,
     session_ok |-> TRUE]

\* request contexts: new and continued tasks, the three missing fields, a
\* message part that does not convert, a session that is created, a session
\* that cannot be created
RequestContexts ==
    {GoodRequest,
     [GoodRequest EXCEPT !.current_task = TRUE],
     [GoodRequest EXCEPT !.task_id = FALSE],
     [GoodRequest EXCEPT !.context_id = FALSE, !.current_task = TRUE],
     [GoodRequest EXCEPT !.message = FALSE],
     [GoodRequest EXCEPT !.parts_ok = FALSE],
     [GoodRequest EXCEPT !.existing_session = FALSE],
     [GoodRequest EXCEPT !.existing_session = FALSE, !.session_ok = FALSE,
                         !.current_task = TRUE]}

Call(name, idx) == [call |-> name, event |-> idx]

\* execute up to its first await, that of get_session
ExecuteStart(req, events) ==
    LET base == [request |-> req, events |-> events, i |-> 1]
        log0 == (IF ~req.current_task THEN <<Call("submit", 0)>> ELSE <<>>)
                \o <<Call("start_work", 0)>>
    IN IF ~req.task_id \/ ~req.context_id \/ ~req.message
       THEN base @@ [pc |-> "raised", log |-> <<>>]
       ELSE IF ~req.parts_ok
       THEN base @@ [pc |-> "raised", log |-> log0]
       ELSE base @@ [pc |-> "get_session", log |-> log0]

\* _get_or_create_session from the answer of get_session to its next await
SessionFound(ex) ==
    IF ex.request.existing_session THEN [ex EXCEPT !.pc = "loop"]
    ELSE [ex EXCEPT !.pc = "create_session"]

\* _get_or_create_session from the answer of create_session on
SessionCreated(ex) ==
    IF ex.request.session_ok THEN [ex EXCEPT !.pc = "loop"]
    ELSE [ex EXCEPT !.pc = "raised"]

\* variant: the loop goes on after a final response
LoopBody_NoBreak(ex) ==
    LET event == ex.events[ex.i] IN
    IF event.final
    THEN IF ~event.parts_ok THEN [ex EXCEPT !.pc = "raised"]
         ELSE [ex EXCEPT !.i = ex.i + 1,
                         !.log = ex.log \o <<Call("add_artifact", ex.i),
                                             Call("complete", ex.i)>>]
    ELSE IF ~event.calls
    THEN IF ~event.parts_ok THEN [ex EXCEPT !.pc = "raised"]
         ELSE [ex EXCEPT !.i = ex.i + 1,
                         !.log = ex.log \o <<Call("update_status", ex.i)>>]
    ELSE [ex EXCEPT !.i = ex.i + 1]

\* one iteration of the async for loop of _process_appointment_request
LoopBody(ex) ==
    LET event == ex.events[ex.i] IN
    IF event.final
    THEN IF ~event.parts_ok THEN [ex EXCEPT !.pc = "raised"]
         ELSE [ex EXCEPT !.pc = "returned",
                         !.log = ex.log \o <<Call("add_artifact", ex.i),
                                             Call("complete", ex.i)>>]
    ELSE IF ~event.calls
    THEN IF ~event.parts_ok THEN [ex EXCEPT !.pc = "raised"]
         ELSE [ex EXCEPT !.i = ex.i + 1,
                         !.log = ex.log \o <<Call("update_status", ex.i)>>]
    ELSE [ex EXCEPT !.i = ex.i + 1]

\* the neurologist process with an executor that has not been called
InitExec ==
    /\ today = LoadDate
    /\ schedule = EmptyDict
    /\ last = [op |-> "initialize"]
    /\ committed = {}
    /\ threads = [t \in ThreadIds |-> IdleThread]
    /\ office = "neurologist"
    /\ \E d \in SampleDraws :
           roster = initialize_neurologist_appointment_schedule(LoadDate, [n \in 1..7 |-> d])
    /\ executor = [pc |-> "idle"]

Execute ==
    /\ executor.pc = "idle"
    /\ \E req \in RequestContexts, events \in EventStreams :
           executor' = ExecuteStart(req, events)
    /\ UNCHANGED <<schedule, today, last, committed, threads, office, roster>>

\* the event loop resumes the call with the answer of get_session
GetSession ==
    /\ executor.pc = "get_session"
    /\ executor' = SessionFound(executor)
    /\ UNCHANGED <<schedule, today, last, committed, threads, office, roster>>

\* the event loop resumes the call with the answer of create_session
CreateSession ==
    /\ executor.pc = "create_session"
    /\ executor' = SessionCreated(executor)
    /\ UNCHANGED <<schedule, today, last, committed, threads, office, roster>>

StepEvent ==
    /\ executor.pc = "loop"
    /\ executor.i <= Len(executor.events)
    /\ executor' = LoopBody(executor)
    /\ UNCHANGED <<schedule, today, last, committed, threads, office, roster>>

\* the stream ends without a final response
StreamEnd ==
    /\ executor.pc = "loop"
    /\ executor.i > Len(executor.events)
    /\ executor' = [executor EXCEPT !.pc = "returned"]
    /\ UNCHANGED <<schedule, today, last, committed, threads, office, roster>>

NextExec == Execute \/ GetSession \/ CreateSession \/ StepEvent \/ StreamEnd

SpecExec == InitExec /\ [][NextExec]_vars

(***************************************************************************)
(* Vocabulary of the properties                                            *)
(***************************************************************************)
ABSENT == <<>>

\* what the calendar holds for a slot of a date, ABSENT when it has no entry
SlotValue(sched, date, slot) ==
    DictGet(DictGet(sched, date, EmptyDict), slot, ABSENT)

IsBlank(name) == \A i \in 1..Len(name) : name[i] \in Whitespace

\* the start and the end of the request c (a record with the arguments of a
\* booking call) as the call reads them, and their minutes of the day
StartOf(c) == ParseDateTime(c.date, c.start_time)

EndOf(c) == ParseDateTime(c.date, c.end_time)

StartMinute(c) == StartOf(c) % 1440

EndMinute(c) == EndOf(c) % 1440

\* the request c, whose start and end read as a and b, passes the occupant,
\* date-time format, time-range and date-exists checks
PassesChecksAt(sched, c, a, b) ==
    /\ ~IsBlank(c.patient_name)
    /\ c.date \in DictKeys(sched)
    /\ a # Invalid /\ b # Invalid /\ a < b

PassesChecks(sched, c) == PassesChecksAt(sched, c, StartOf(c), EndOf(c))

\* the hour that starts at slot key slot meets the interval [st, et) of
\* minutes of the day
Overlaps(slot, st, et) ==
    /\ ParseTime(slot) < et
    /\ st < ParseTime(slot) + 60

InSeq(x, seq) == \E i \in 1..Len(seq) : seq[i] = x

\* the slot keys the code derives from the request c
DerivedSlots(c) ==
    RequiredTimeSlots(StartOf(c), EndOf(c))

\* a report of list_appointment_availabilities lists slot as available
ShownAvailable(report, slot) ==
    report.status = "success" /\ InSeq(slot, report.available_slots)

Label(c) == c.patient_name \o <<" ", "(">> \o c.appointment_type \o <<")">>

(***************************************************************************)
(* C1  No double booking: once a booking has succeeded with slot s of date *)
(* d among its booked slots, every later booking call on d that passes the *)
(* occupant, format, time-range and date checks and whose span meets s     *)
(* returns SLOT_ALREADY_BOOKED and leaves the calendar as it was.          *)
(***************************************************************************)
C1_NoDoubleBooking ==
    [][ last'.op = "book" =>
        \A a \in {StartOf(last')}, b \in {EndOf(last')} :
           ( /\ PassesChecksAt(schedule, last', a, b)
             /\ \E p \in committed :
                    /\ p[1] = last'.date
                    /\ Overlaps(p[2], a % 1440, b % 1440) )
           => ( /\ last'.result.error_code = "SLOT_ALREADY_BOOKED"
                /\ schedule' = schedule ) ]_vars

C1_Witness ==
    /\ last.op = "book"
    /\ last.result.error_code = "SLOT_ALREADY_BOOKED"
    /\ \E p \in committed :
           p[1] = last.date /\ p[2] = last.result.conflicting_slot
    /\ Len(DerivedSlots(last)) > 1
    /\ last.result.conflicting_slot # DerivedSlots(last)[1]

(***************************************************************************)
(* C2  All-or-nothing commit: a booking call that returns a failure leaves *)
(* the calendar unchanged, and every slot that was available before the    *)
(* call is listed as available by list_appointment_availabilities after it *)
(* (in particular the slots around a booked middle slot of the span).      *)
(***************************************************************************)
C2_AllOrNothing ==
    [][ (last'.op = "book" /\ last'.result.status = "error")
        => ( /\ schedule' = schedule
             /\ LET day == DictGet(schedule, last'.date, EmptyDict) IN
                \A report \in {ListResult(schedule', today', last'.date)} :
                \A j \in 1..Len(day) :
                       day[j].v = AVAILABLE => ShownAvailable(report, day[j].k) ) ]_vars

C2_Witness ==
    /\ last.op = "book"
    /\ last.result.error_code = "SLOT_ALREADY_BOOKED"
    /\ LET slots == DerivedSlots(last) IN
       /\ Len(slots) = 3
       /\ last.result.conflicting_slot = slots[2]
       /\ SlotValue(schedule, last.date, slots[2]) \notin {AVAILABLE, ABSENT}
       /\ ShownAvailable(ListResult(schedule, today, last.date), slots[1])
       /\ ShownAvailable(ListResult(schedule, today, last.date), slots[3])

(***************************************************************************)
(* C5  Slot state is monotonic: a slot goes from available to booked only  *)
(* in a successful booking call that lists it among its booked slots, and  *)
(* a booked slot never becomes available again nor changes its occupant.   *)
(***************************************************************************)
C5_SlotMonotonic ==
    [][ schedule' # schedule =>
        \A i \in 1..Len(schedule) : \A j \in 1..Len(schedule[i].v) :
          LET d   == schedule[i].k
              s   == schedule[i].v[j].k
              old == schedule[i].v[j].v
              new == SlotValue(schedule', d, s)
          IN /\ old # AVAILABLE => new = old
             /\ (old = AVAILABLE /\ new # AVAILABLE)
                => ( /\ last'.op = "book"
                     /\ last'.result.status = "success"
                     /\ last'.date = d
                     /\ InSeq(s, last'.result.booked_slots)
                     /\ new = Label(last') ) ]_vars

C5_Witness ==
    /\ last.op = "book"
    /\ last.result.error_code = "SLOT_ALREADY_BOOKED"
    /\ last.result.existing_patient
           = SlotValue(schedule, last.date, last.result.conflicting_slot)
    /\ last.result.existing_patient \notin {Label(last), ABSENT, AVAILABLE}

(***************************************************************************)
(* C6  Calendar shape: every date key of the calendar holds exactly the    *)
(* nine on-the-hour keys 08:00 .. 16:00, once each, and the date keys are  *)
(* the seven populated at load; no call adds or removes a key.             *)
(***************************************************************************)
HourKeys == {Pad2(h) \o <<":", "0", "0">> : h \in 8..16}

C6_CalendarShape ==
    /\ Len(schedule) = 7
    /\ DictKeys(schedule) = {FormatDate(LoadDate + k) : k \in 0..6}
    /\ \A i \in 1..Len(schedule) :
           /\ DictKeys(schedule[i].v) = HourKeys
           /\ Len(schedule[i].v) = 9

C6_Witness ==
    /\ last.op = "book"
    /\ last.result.error_code = "SLOT_ALREADY_BOOKED"
    /\ last.result.conflicting_slot \notin HourKeys
    /\ committed # {}

(***************************************************************************)
(* C7  Initialization completeness: on the freshly initialized calendar,   *)
(* listing any of the seven days from today on succeeds with total_slots = *)
(* end_hour - start_hour = 9, all of them available and none booked.       *)
(***************************************************************************)
FreshReport(r) ==
    /\ r.status = "success"
    /\ r.total_slots = EndHour - StartHour
    /\ r.total_slots = 9
    /\ r.available_count = r.total_slots
    /\ Len(r.available_slots) = r.total_slots
    /\ r.booked_count = 0
    /\ r.booked_appointments = EmptyDict

C7_InitializationComplete ==
    /\ last.op = "initialize"
       => \A k \in 0..6 : FreshReport(ListResult(schedule, today, FormatDate(today + k)))
    /\ ( /\ last.op = "list"
         /\ committed = {}
         /\ \E k \in 0..6 : last.date = FormatDate(today + k) )
       => FreshReport(last.result)

C7_Witness ==
    /\ last.op = "list"
    /\ committed = {}
    /\ last.date = FormatDate(today + 4)
    /\ last.result.status = "success"
    /\ last.result.available_count = 9

(***************************************************************************)
(* C8  Validation order of a booking call: missing occupant, then date or  *)
(* time format, then time range, then date not in the calendar, then slot  *)
(* already booked; a call that fails several checks reports the first one  *)
(* in that order, and a call that fails none succeeds.                     *)
(***************************************************************************)
FailsOccupant(c) == IsBlank(c.patient_name)

FailsFormatAt(a, b) == a = Invalid \/ b = Invalid

FailsFormat(c) == FailsFormatAt(StartOf(c), EndOf(c))

FailsRangeAt(a, b) == a >= b

FailsRange(c) == FailsRangeAt(StartOf(c), EndOf(c))

FailsDate(sched, c) == c.date \notin DictKeys(sched)

FailsSlotsAt(sched, c, a, b) ==
    LET slots == RequiredTimeSlots(a, b) IN
    \E i \in 1..Len(slots) : SlotValue(sched, c.date, slots[i]) # AVAILABLE

C8_ValidationOrder ==
    [][ last'.op = "book" =>
        \A a \in {StartOf(last')}, b \in {EndOf(last')} :
        LET c        == last'
            code     == last'.result.error_code
            occupant == FailsOccupant(c)
            format   == FailsFormatAt(a, b)
            range    == FailsRangeAt(a, b)
            date     == FailsDate(schedule, c)
            slots    == FailsSlotsAt(schedule, c, a, b)
        IN /\ occupant => code = "MISSING_PATIENT_NAME"
           /\ (~occupant /\ format) => code = "INVALID_DATETIME_FORMAT"
           /\ (~occupant /\ ~format /\ range) => code = "INVALID_TIME_RANGE"
           /\ (~occupant /\ ~format /\ ~range /\ date)
              => code = "DATE_NOT_AVAILABLE"
           /\ (~occupant /\ ~format /\ ~range /\ ~date /\ slots)
              => code = "SLOT_ALREADY_BOOKED"
           /\ (~occupant /\ ~format /\ ~range /\ ~date /\ ~slots)
              => last'.result.status = "success" ]_vars

C8_Witness ==
    /\ last.op = "book"
    /\ ~FailsOccupant(last)
    /\ ~FailsFormat(last)
    /\ FailsRange(last)
    /\ FailsDate(schedule, last)
    /\ last.result.error_code = "INVALID_TIME_RANGE"

(***************************************************************************)
(* C9  Successful booking: on a populated date, with a non-blank occupant  *)
(* and start < end, when every on-the-hour key in [start, end) is          *)
(* available the call succeeds, booked_slots is that sequence of keys in   *)
(* ascending order, duration_hours is its length, those slots hold the     *)
(* occupant label afterwards and every other slot is unchanged.            *)
(***************************************************************************)
RECURSIVE GridKeysFrom(_, _, _)
GridKeysFrom(h, st, et) ==
    IF h > 23 THEN <<>>
    ELSE (IF st <= 60 * h /\ 60 * h < et
          THEN << Pad2(h) \o <<":", "0", "0">> >> ELSE <<>>)
         \o GridKeysFrom(h + 1, st, et)

GridKeys(c) == GridKeysFrom(0, StartMinute(c), EndMinute(c))

BookedExactly(old, new, c, keys) ==
    \A i \in 1..Len(old) : \A j \in 1..Len(old[i].v) :
        SlotValue(new, old[i].k, old[i].v[j].k)
            = IF old[i].k = c.date /\ InSeq(old[i].v[j].k, keys)
              THEN Label(c) ELSE old[i].v[j].v

C9_SuccessfulBooking ==
    [][ ( /\ last'.op = "book"
          /\ PassesChecks(schedule, last')
          /\ \A i \in 1..Len(GridKeys(last')) :
                 SlotValue(schedule, last'.date, GridKeys(last')[i]) = AVAILABLE )
        => ( /\ last'.result.status = "success"
             /\ last'.result.booked_slots = GridKeys(last')
             /\ last'.result.duration_hours = Len(GridKeys(last'))
             /\ BookedExactly(schedule, schedule', last', GridKeys(last')) ) ]_vars

(***************************************************************************)
(* C10  Sub-grid start: a booking call whose start time is not on the hour *)
(* is judged on the grid slots its interval meets, so when the slot that   *)
(* contains the start time is booked the call fails with                   *)
(* SLOT_ALREADY_BOOKED, reporting that slot and its occupant.              *)
(***************************************************************************)
StartSlot(c) == Pad2(StartMinute(c) \div 60) \o <<":", "0", "0">>

C10_SubGridConflict ==
    [][ ( /\ last'.op = "book"
          /\ PassesChecks(schedule, last')
          /\ StartMinute(last') % 60 # 0
          /\ SlotValue(schedule, last'.date, StartSlot(last')) \notin {AVAILABLE, ABSENT} )
        => ( /\ last'.result.error_code = "SLOT_ALREADY_BOOKED"
             /\ last'.result.conflicting_slot = StartSlot(last')
             /\ last'.result.existing_patient
                    = SlotValue(schedule, last'.date, StartSlot(last')) ) ]_vars

(***************************************************************************)
(* C3  Linearizable booking: of the booking calls of several threads on    *)
(* one date whose spans share a slot at most one returns success, and once *)
(* all calls have returned every booked slot holds the occupant label of   *)
(* exactly one successful call whose booked slots contain it.              *)
(***************************************************************************)
Succeeded(t) ==
    /\ threads[t].pc = "returned"
    /\ threads[t].op = "book"
    /\ threads[t].result.status = "success"

SharesSlot(t, u) ==
    /\ threads[t].date = threads[u].date
    /\ \E i \in 1..Len(threads[t].result.booked_slots) :
           InSeq(threads[t].result.booked_slots[i], threads[u].result.booked_slots)

Owners(d, s) ==
    {t \in BookThreads :
        /\ Succeeded(t)
        /\ threads[t].date = d
        /\ InSeq(s, threads[t].result.booked_slots)}

C3_LinearizableBooking ==
    /\ \A t \in BookThreads : \A u \in BookThreads \ {t} :
           (Succeeded(t) /\ Succeeded(u)) => ~SharesSlot(t, u)
    /\ (\A t \in BookThreads : threads[t].pc = "returned")
       => \A i \in 1..Len(schedule) : \A j \in 1..Len(schedule[i].v) :
              schedule[i].v[j].v # AVAILABLE
              => /\ Cardinality(Owners(schedule[i].k, schedule[i].v[j].k)) = 1
                 /\ \E t \in Owners(schedule[i].k, schedule[i].v[j].k) :
                        schedule[i].v[j].v = Label(threads[t])

(***************************************************************************)
(* C4  No torn reads: a report of list_appointment_availabilities never    *)
(* shows one slot of a booking call as booked for that call and another    *)
(* slot of the same call as available.                                     *)
(***************************************************************************)
ShownBookedFor(report, slot, label) ==
    \E i \in 1..Len(report.booked_appointments) :
        /\ report.booked_appointments[i].k = slot
        /\ report.booked_appointments[i].v = label

C4_NoTornRead ==
    \A r \in ThreadIds : \A t \in BookThreads :
        ( /\ threads[r].pc = "returned"
          /\ threads[r].op = "list"
          /\ threads[r].result.status = "success"
          /\ threads[t].pc \in {"book", "returned"}
          /\ threads[t].op = "book"
          /\ threads[t].date = threads[r].date
          /\ "slots" \in DOMAIN threads[t] )
        => ~ \E a \in 1..Len(threads[t].slots) : \E b \in 1..Len(threads[t].slots) :
                 /\ a # b
                 /\ ShownBookedFor(threads[r].result, threads[t].slots[a],
                                   Label(threads[t]))
                 /\ ShownAvailable(threads[r].result, threads[t].slots[b])

(***************************************************************************)
(* C11  Out-of-hours spans are rejected whole: a booking call that passes  *)
(* the occupant, format, time-range and date checks and whose span holds   *)
(* an hour that is not a slot key of the day fails with                    *)
(* SLOT_ALREADY_BOOKED and books nothing, also when every in-hours slot of *)
(* the span is available; for a start on the hour the slot it reports is   *)
(* the first slot of the span, in time order, that is absent or booked.    *)
(***************************************************************************)
SpanKeysAt(a, b) ==
    LET hs == SelectSeq([i \in 1..24 |-> i - 1], LAMBDA h : a <= 60 * h /\ 60 * h < b)
    IN [i \in 1..Len(hs) |-> Pad2(hs[i]) \o <<":", "0", "0">>]

C11_OutOfHoursRejected ==
    [][ last'.op = "book"
        => \A a \in {StartOf(last')}, b \in {EndOf(last')} :
           LET keys == SpanKeysAt(a % 1440, b % 1440)
               day  == DictGet(schedule, last'.date, EmptyDict)
           IN ( /\ PassesChecksAt(schedule, last', a, b)
                /\ \E i \in 1..Len(keys) : ~DictHas(day, keys[i]) )
              => ( /\ last'.result.error_code = "SLOT_ALREADY_BOOKED"
                   /\ schedule' = schedule
                   /\ a % 60 = 0
                      => \E i \in 1..Len(keys) :
                             /\ last'.result.conflicting_slot = keys[i]
                             /\ DictGet(day, keys[i], ABSENT) # AVAILABLE
                             /\ \A j \in 1..(i - 1) :
                                    DictGet(day, keys[j], ABSENT) = AVAILABLE ) ]_vars

C11_Witness ==
    /\ last.op = "book"
    /\ last.result.error_code = "SLOT_ALREADY_BOOKED"
    /\ LET keys == SpanKeysAt(StartMinute(last), EndMinute(last)) IN
       /\ Len(keys) = 7
       /\ last.result.conflicting_slot = keys[7]
       /\ SlotValue(schedule, last.date, keys[7]) = ABSENT
       /\ \A j \in 1..6 : SlotValue(schedule, last.date, keys[j]) = AVAILABLE

(***************************************************************************)
(* C12  Date boundary of list_appointment_availabilities: a call with a    *)
(* well-formed date fails with PAST_DATE_NOT_ALLOWED exactly when the date *)
(* is strictly before the current date, the current date and every later   *)
(* date succeed, and a malformed date fails with INVALID_DATE_FORMAT.      *)
(***************************************************************************)
C12_DateBoundary ==
    [][ (last'.op = "list" /\ today' = today)
        => LET d == ParseDate(last'.date)
               r == last'.result
           IN /\ d = Invalid => r.error_code = "INVALID_DATE_FORMAT"
              /\ d # Invalid
                 => /\ r.error_code = "PAST_DATE_NOT_ALLOWED" <=> d < today
                    /\ d >= today => r.status = "success" ]_vars

C12_Witness ==
    /\ last.op = "list"
    /\ today > LoadDate
    /\ ParseDate(last.date) = today
    /\ last.result.status = "success"

(***************************************************************************)
(* C13  The reference date is fixed when the calendar is populated: after  *)
(* the clock has moved on, list_appointment_availabilities still compares  *)
(* against the date of loading, so a date populated at loading is never    *)
(* rejected with PAST_DATE_NOT_ALLOWED.                                    *)
(***************************************************************************)
C13_ReferenceDateFixed ==
    [][ (last'.op = "list" /\ today' = today)
        => /\ last'.result = ListResult(schedule, LoadDate, last'.date)
           /\ last'.date \in DictKeys(schedule)
              => last'.result.error_code # "PAST_DATE_NOT_ALLOWED" ]_vars

(***************************************************************************)
(* C14  list_appointment_availabilities partitions the day: for every      *)
(* populated date that is not past, the available slots are in ascending   *)
(* time order, no slot is both available and a key of the booked           *)
(* appointments, the two together are the keys of the day, and the counts  *)
(* are the two lengths and add up to the total.                            *)
(***************************************************************************)
C14_ReportPartitionsDay ==
    \A i \in 1..Len(schedule) :
        ParseDate(schedule[i].k) >= today
        => LET r      == ListResult(schedule, today, schedule[i].k)
               avail  == {r.available_slots[k] : k \in 1..Len(r.available_slots)}
               booked == DictKeys(r.booked_appointments)
           IN /\ r.status = "success"
              /\ \A k \in 1..(Len(r.available_slots) - 1) :
                     ParseTime(r.available_slots[k]) < ParseTime(r.available_slots[k + 1])
              /\ avail \cap booked = {}
              /\ avail \cup booked = DictKeys(schedule[i].v)
              /\ r.available_count = Len(r.available_slots)
              /\ r.booked_count = Len(r.booked_appointments)
              /\ Cardinality(booked) = r.booked_count
              /\ r.available_count + r.booked_count = r.total_slots

C14_Witness ==
    /\ last.op = "list"
    /\ last.result.status = "success"
    /\ last.result.total_slots = 9
    /\ last.result.available_count = 6
    /\ last.result.booked_count = 3
    /\ last.result = ListResult(schedule, today, last.date)

(***************************************************************************)
(* C15  Bookings are visible to queries: after any sequence of booking     *)
(* calls, for every populated date d that is not past, the booked count of *)
(* list_appointment_availabilities(d) is the number of slots of d covered  *)
(* by successful bookings, the available count is the total minus that     *)
(* number, and the entry of each such slot contains the occupant of the    *)
(* booking that covered it.                                                *)
(***************************************************************************)
StartsWith(text, prefix) ==
    Len(prefix) <= Len(text) /\ SubSeq(text, 1, Len(prefix)) = prefix

C15_BookingsVisible ==
    \A i \in 1..Len(schedule) :
        ParseDate(schedule[i].k) >= today
        => LET r   == ListResult(schedule, today, schedule[i].k)
               cov == {p \in committed : p[1] = schedule[i].k}
               n   == Cardinality({p[2] : p \in cov})
           IN /\ r.status = "success"
              /\ r.booked_count = n
              /\ r.available_count = r.total_slots - n
              /\ \A p \in cov :
                     \E k \in 1..Len(r.booked_appointments) :
                         /\ r.booked_appointments[k].k = p[2]
                         /\ StartsWith(r.booked_appointments[k].v, p[3])

C15_Witness ==
    /\ last.op = "list"
    /\ last.result.status = "success"
    /\ last.result.total_slots = 9
    /\ last.result.available_count = 7
    /\ last.result.booked_count = 2
    /\ {p[2] : p \in {q \in committed : q[1] = last.date}} = {T_0900, T_1000}
    /\ last.result = ListResult(schedule, today, last.date)

(***************************************************************************)
(* C16  The literal "available" never collides with an occupant: for every *)
(* occupant that passed the occupant check, the name "available" included, *)
(* a slot committed by a successful booking does not hold the available    *)
(* marker, is reported as booked and not as available by                   *)
(* list_appointment_availabilities, and makes a later booking of that slot *)
(* fail with SLOT_ALREADY_BOOKED.                                          *)
(***************************************************************************)
NextHour(slot) == Pad2(ParseTime(slot) \div 60 + 1) \o <<":", "0", "0">>

C16_AvailableNeverCollides ==
    \A p \in committed :
        ParseDate(p[1]) >= today
        => LET r == ListResult(schedule, today, p[1])
               b == BookResult(schedule, p[1], p[2], NextHour(p[2]), P_JO,
                               CONSULTATION, NoId)
           IN /\ SlotValue(schedule, p[1], p[2]) \notin {AVAILABLE, ABSENT}
              /\ ~ShownAvailable(r, p[2])
              /\ p[2] \in DictKeys(r.booked_appointments)
              /\ b.error_code = "SLOT_ALREADY_BOOKED"
              /\ b.conflicting_slot = p[2]

C16_Witness ==
    /\ last.op = "book"
    /\ last.patient_name = P_JO
    /\ last.result.error_code = "SLOT_ALREADY_BOOKED"
    /\ last.result.existing_patient = PatientBookingInfo(AVAILABLE, CONSULTATION)
    /\ <<last.date, last.result.conflicting_slot, AVAILABLE>> \in committed

(***************************************************************************)
(* C17  list_appointment_availabilities is a pure read: a call leaves the  *)
(* calendar as it was, and of two consecutive calls with the same date and *)
(* no booking between them the second returns what the first returned.     *)
(* The first call is the one recorded in last, the second the one of the   *)
(* step; midnight may pass between the two, a booking may not.             *)
(***************************************************************************)
C17_ListIsPureRead ==
    [][ last'.op = "list"
        => /\ schedule' = schedule
           /\ ( last.op = "list" /\ last.date = last'.date )
              => last'.result = last.result ]_vars

(***************************************************************************)
(* C18  Unpopulated dates: for a well-formed date that is not past and has *)
(* no day schedule, list_appointment_availabilities returns success with   *)
(* total 0, no available slots and no booked appointments, and a booking   *)
(* call that passes the occupant, format and time-range checks fails with  *)
(* DATE_NOT_AVAILABLE.                                                     *)
(***************************************************************************)
C18_UnpopulatedDate ==
    [][ ( /\ last'.op \in {"list", "book"}
          /\ last'.date \notin DictKeys(schedule)
          /\ \E d \in {ParseDate(last'.date)} : d # Invalid /\ d >= today )
        => /\ last'.op = "list"
              => /\ last'.result.status = "success"
                 /\ last'.result.total_slots = 0
                 /\ last'.result.available_slots = <<>>
                 /\ last'.result.booked_appointments = EmptyDict
           /\ ( /\ last'.op = "book"
                /\ ~IsBlank(last'.patient_name)
                /\ \E a \in {StartOf(last')}, b \in {EndOf(last')} :
                       a # Invalid /\ b # Invalid /\ a < b )
              => /\ last'.result.error_code = "DATE_NOT_AVAILABLE"
                 /\ schedule' = schedule ]_vars

C18_Witness ==
    /\ last.op = "book"
    /\ last.date = D_AFTER
    /\ last.result.error_code = "DATE_NOT_AVAILABLE"
    /\ ListResult(schedule, today, last.date).status = "success"
    /\ ListResult(schedule, today, last.date).total_slots = 0

(***************************************************************************)
(* C19  Past-date rule of the range query: in both offices a query with    *)
(* two well-formed dates and start not after end is rejected as wholly     *)
(* past exactly when its end date is strictly before the current date,     *)
(* and a range that ends on or after the current date returns the listing. *)
(***************************************************************************)
C19_RangePastDateRule ==
    last.op = "range"
    => LET a == ParseDate(last.start_date)
           b == ParseDate(last.end_date)
       IN (a # Invalid /\ b # Invalid /\ a <= b)
          => /\ last.result.error_code = "ALL_PAST_DATES" <=> b < today
             /\ b >= today => last.result.status = "success"

(***************************************************************************)
(* C20  Order of the range checks: in both offices a query with two        *)
(* well-formed dates and start after end fails as an invalid range, also   *)
(* when the whole range is past, and a query with a malformed start or end *)
(* date fails as an invalid date format whatever the other date is.        *)
(***************************************************************************)
C20_RangeOrder ==
    last.op = "range"
    => LET a == ParseDate(last.start_date)
           b == ParseDate(last.end_date)
       IN /\ (a = Invalid \/ b = Invalid)
             => last.result.error_code = "INVALID_DATE_FORMAT"
          /\ (a # Invalid /\ b # Invalid /\ a > b)
             => last.result.error_code = "INVALID_DATE_RANGE"

C20_Witness ==
    /\ office = "neurologist"
    /\ last.op = "range"
    /\ ParseDate(last.start_date) < today
    /\ ParseDate(last.end_date) # Invalid
    /\ ParseDate(last.end_date) < ParseDate(last.start_date)
    /\ last.result.error_code = "INVALID_DATE_RANGE"

(***************************************************************************)
(* C21  Shape of the range result: an accepted range query returns one     *)
(* entry for each calendar date from the start date to the end date        *)
(* inclusive, in ascending date order; the entry of a date holds the times *)
(* the read-only calendar has for that date, in ascending order, and is    *)
(* the entry without slots when the calendar has none for it, as for a     *)
(* date outside the populated week.                                        *)
(***************************************************************************)
\* the times the calendar holds for day number n, none when it has no such day
TimesOfDay(cal, n) ==
    IF \E i \in 1..Len(cal) : ParseDate(cal[i].k) = n
    THEN (CHOOSE e \in {cal[i] : i \in 1..Len(cal)} : ParseDate(e.k) = n).v
    ELSE <<>>

C21_RangeResultShape ==
    (last.op = "range" /\ last.result.status = "success")
    => LET a     == ParseDate(last.start_date)
           b     == ParseDate(last.end_date)
           lines == last.result.lines
       IN /\ Len(lines) = b - a + 1
          /\ \A i \in 1..Len(lines) :
                 /\ ParseDate(lines[i].date) = a + i - 1
                 /\ lines[i].slots = TimesOfDay(roster, a + i - 1)
                 /\ \A k \in 1..(Len(lines[i].slots) - 1) :
                        ParseTime(lines[i].slots[k]) < ParseTime(lines[i].slots[k + 1])

C21_Witness ==
    /\ last.op = "range"
    /\ last.result.status = "success"
    /\ Len(last.result.lines) = 4
    /\ Len(last.result.lines[1].slots) = 6
    /\ last.result.lines[4].slots = <<>>
    /\ ParseDate(last.result.lines[4].date) = LoadDate + 7

(***************************************************************************)
(* C23  Read-only calendar invariant: in every reachable state of the      *)
(* neurologist and pulmonologist processes each of the seven populated     *)
(* dates holds exactly six distinct on-the-hour times from 08:00 up to but *)
(* not including 17:00, in ascending order, and no range query, accepted   *)
(* or rejected, changes the calendar.                                      *)
(***************************************************************************)
RosterShape ==
    /\ Len(roster) = 7
    /\ {ParseDate(roster[i].k) : i \in 1..Len(roster)} = {LoadDate + k : k \in 0..6}
    /\ \A i \in 1..Len(roster) :
           LET times == roster[i].v IN
           /\ Len(times) = 6
           /\ \A k \in 1..Len(times) :
                  ParseTime(times[k]) \in {60 * h : h \in 8..16}
           /\ \A k \in 1..(Len(times) - 1) :
                  ParseTime(times[k]) < ParseTime(times[k + 1])

C23_ReadOnlyCalendar == [](RosterShape) /\ [][roster' = roster]_vars

C23_Witness ==
    /\ last.op = "range"
    /\ last.result.status = "error"
    /\ RosterShape
    /\ \E i \in 1..Len(roster) : roster[i].v # roster[1].v

(***************************************************************************)
(* C22  Re-initialization replaces the whole calendar: after a further     *)
(* call of initialize_medical_schedule, at any later time and after any    *)
(* bookings, the calendar holds exactly the seven consecutive dates from   *)
(* the current date on, every slot available, and no date key or booking   *)
(* of the calendar before the call is left.                                *)
(***************************************************************************)
C22_ReinitializeReplaces ==
    [][ (last'.op = "initialize" /\ today' = today)
        => /\ Len(schedule') = 7
           /\ DictKeys(schedule') = {FormatDate(today + k) : k \in 0..6}
           /\ \A i \in 1..Len(schedule') :
                  /\ DictKeys(schedule'[i].v) = HourKeys
                  /\ \A j \in 1..Len(schedule'[i].v) :
                         schedule'[i].v[j].v = AVAILABLE ]_vars

(***************************************************************************)
(* C24  Booking and querying agree on the usable dates: in every reachable *)
(* state, also after the clock has moved past dates populated at loading,  *)
(* a booking call that succeeds on a date is followed by a state in which  *)
(* list_appointment_availabilities of that date succeeds and shows the     *)
(* booked slots with the occupant; no booking is committed on a date the   *)
(* listing rejects with PAST_DATE_NOT_ALLOWED.                             *)
(***************************************************************************)
C24_BookAndListAgree ==
    [][ (last'.op = "book" /\ last'.result.status = "success" /\ today' = today)
        => LET r == ListResult(schedule', today', last'.date) IN
           /\ r.error_code # "PAST_DATE_NOT_ALLOWED"
           /\ r.status = "success"
           /\ \A i \in 1..Len(last'.result.booked_slots) :
                  ShownBookedFor(r, last'.result.booked_slots[i], Label(last')) ]_vars

(***************************************************************************)
(* C25  Task lifecycle of NeurologistAgentExecutor.execute: for every      *)
(* event stream the task is submitted only when the request has no current *)
(* task, and then before start_work; start_work precedes every working     *)
(* status update and the artifact; the task is completed at most once,     *)
(* right after the artifact of the first final-response event; nothing is  *)
(* emitted after completion; and an event with function calls that is not  *)
(* final produces no status update.                                        *)
(***************************************************************************)
FirstFinal(events) ==
    CHOOSE i \in 1..Len(events) :
        events[i].final /\ \A j \in 1..(i - 1) : ~events[j].final

C25_TaskLifecycle ==
    executor.pc # "idle"
    => LET log    == executor.log
           events == executor.events
           At(name) == {k \in 1..Len(log) : log[k].call = name}
       IN /\ \A k \in At("submit") :
                 /\ ~executor.request.current_task
                 /\ \E j \in At("start_work") : k < j
                 /\ \A j \in At("start_work") : k < j
          /\ Cardinality(At("submit")) <= 1
          /\ \A k \in At("update_status") \cup At("add_artifact") :
                 \E j \in At("start_work") : j < k
          /\ Cardinality(At("complete")) <= 1
          /\ \A k \in At("complete") :
                 /\ k > 1
                 /\ log[k - 1].call = "add_artifact"
                 /\ log[k - 1].event = log[k].event
                 /\ log[k].event = FirstFinal(events)
                 /\ k = Len(log)
          /\ \A k \in At("add_artifact") : k + 1 \in At("complete")
          /\ \A k \in At("update_status") :
                 /\ ~events[log[k].event].calls
                 /\ ~events[log[k].event].final

C25_Witness ==
    /\ executor.pc = "returned"
    /\ Len(executor.events) = 3
    /\ executor.events[1].final
    /\ executor.events[2] = [final |-> FALSE, calls |-> FALSE, parts_ok |-> TRUE]
    /\ executor.log = <<Call("submit", 0), Call("start_work", 0),
                        Call("add_artifact", 1), Call("complete", 1)>>

====
